---- MODULE Spec2Model ----
(***************************************************************************)
(* weather-ai: src/Develop/src/server.ts.                                  *)
(*                                                                         *)
(* The module body of server.ts (configuration, credential check, model,   *)
(* parser, prompt template, route, listen) is the main program; every      *)
(* POST /forecast runs the async route handler, which suspends at the two  *)
(* awaits of promptFunc (promptTemplate.format and model.invoke).  Node    *)
(* runs a handler without interruption between two suspension points, so   *)
(* one action is one such run.                                             *)
(***************************************************************************)
EXTENDS Integers, Sequences, FiniteSets, TLC

\* Number of POST /forecast requests the server receives in a behaviour.
NumReq == 2

Requests == 1..NumReq

VARIABLES
    mainPc,           \* position of the module body / state of the process
    envKey,           \* process.env.OPENAI_API_KEY after dotenv.config()
    apiKey,           \* const apiKey
    model,            \* const model (the OpenAI client)
    routeRegistered,  \* app.post('/forecast', ...) has run
    stderr,           \* console.error output of the module body
    pc,               \* per request: where its handler is
    location,         \* per request: req.body.location
    prompt,           \* per request: promptInput, as rendered segments
    calls,            \* per request: number of model.invoke calls started
    completions,      \* per request: the settled outcomes of model.invoke
    res,              \* per request: the express Response object
    log               \* per request: console.error output of its handler

vars == <<mainPc, envKey, apiKey, model, routeRegistered, stderr,
          pc, location, prompt, calls, completions, res, log>>

(***************************************************************************)
(* JavaScript values                                                       *)
(***************************************************************************)
Undefined == [type |-> "undefined", val |-> ""]
Str(s) == [type |-> "string", val |-> s]
Num(s) == [type |-> "number", val |-> s]

\* The `!x` test: undefined and the empty string are falsy.
Falsy(v) == v.type = "undefined" \/ (v.type = "string" /\ v.val = "")

\* String concatenation of a value into a template: a string as it is,
\* undefined as the text "undefined".
Stringify(v) == IF v.type = "undefined" THEN "undefined" ELSE v.val

\* A thrown or rejected value; isError is `instanceof Error`.
Err(isError, message) == [isError |-> isError, message |-> message]
NoError == Err(FALSE, "")

(***************************************************************************)
(* Inputs                                                                  *)
(***************************************************************************)
\* What the environment may hold for OPENAI_API_KEY.
EnvKeys == {Undefined, Str(""), Str("sk-test")}

\* req.body.location of a request: absent, empty, or a place.
BodyLocations == {Undefined, Str(""), Str("Seattle"), Str("Boston")}

DayKeys == {"day1", "day2", "day3", "day4", "day5"}

\* JSON values a completion text may encode.
FullForecast ==
    [day1 |-> Str("sun"), day2 |-> Str("rain"), day3 |-> Str("wind"),
     day4 |-> Str("snow"), day5 |-> Str("fog")]
MissingKeyForecast ==
    [day1 |-> Str("sun"), day2 |-> Str("rain"), day3 |-> Str("wind"),
     day4 |-> Str("snow")]
NonStringForecast ==
    [day1 |-> Str("sun"), day2 |-> Str("rain"), day3 |-> Str("wind"),
     day4 |-> Str("snow"), day5 |-> Num("72")]
NoValue == [k \in {} |-> Undefined]

\* A settled model.invoke: it resolves with a string (text that is or is not
\* well-formed JSON) or rejects with an error.
Text(wellFormed, value) ==
    [kind |-> "text", wellFormed |-> wellFormed, value |-> value, error |-> NoError]
Rejected(error) ==
    [kind |-> "rejected", wellFormed |-> FALSE, value |-> NoValue, error |-> error]

ProviderErrors == {Err(TRUE, "401 Incorrect API key provided"), Err(FALSE, "aborted")}

Outcomes ==
    {Text(TRUE, FullForecast), Text(TRUE, MissingKeyForecast),
     Text(TRUE, NonStringForecast), Text(FALSE, NoValue)}
    \cup {Rejected(e) : e \in ProviderErrors}

(***************************************************************************)
(* Module-level constants of server.ts                                     *)
(***************************************************************************)
\* z.object({day1: z.string(), ..., day5: z.string()}): what the parser accepts.
parser(v) == \A k \in DayKeys : k \in DOMAIN v /\ v[k].type = "string"

\* outputFixingParser.getFormatInstructions()
formatInstructions == "format_instructions: JSON schema day1..day5"

\* new PromptTemplate({template, inputVariables, partialVariables}); the
\* template text has one placeholder, {location}.
promptTemplate ==
    [template |->
        << [type |-> "text", val |-> "You are a sports announcer. ... forecast for "],
           [type |-> "variable", val |-> "location"],
           [type |-> "text", val |-> ". Make it sound like a thrilling sports commentary! ..."] >>,
     inputVariables |-> {"location"},
     partialVariables |-> [format_instructions |-> Str(formatInstructions)]]

\* promptTemplate.format(values): the partial variables merged with the
\* given ones, each placeholder of the template replaced by its value.
Format(values) ==
    LET merged == [n \in DOMAIN promptTemplate.partialVariables \cup DOMAIN values |->
                      IF n \in DOMAIN values THEN values[n]
                      ELSE promptTemplate.partialVariables[n]]
        t == promptTemplate.template
    IN  [i \in 1..Len(t) |->
            IF t[i].type = "variable" THEN Stringify(merged[t[i].val]) ELSE t[i].val]

Contains(p, s) == \E i \in 1..Len(p) : p[i] = s

(***************************************************************************)
(* The module body                                                         *)
(***************************************************************************)
Init ==
    /\ mainPc = "start"
    /\ envKey \in EnvKeys
    /\ apiKey = Undefined
    /\ model = [built |-> FALSE, openAIApiKey |-> Undefined]
    /\ routeRegistered = FALSE
    /\ stderr = <<>>
    /\ pc = [r \in Requests |-> "idle"]
    /\ location = [r \in Requests |-> Undefined]
    /\ prompt = [r \in Requests |-> <<>>]
    /\ calls = [r \in Requests |-> 0]
    /\ completions = [r \in Requests |-> <<>>]
    /\ res = [r \in Requests |-> [statusCode |-> 200, sent |-> <<>>, attempts |-> <<>>]]
    /\ log = [r \in Requests |-> <<>>]

requestVars == <<pc, location, prompt, calls, completions, res, log>>

\* dotenv.config(); const apiKey = process.env.OPENAI_API_KEY
LoadConfig ==
    /\ mainPc = "start"
    /\ apiKey' = envKey
    /\ mainPc' = "checkKey"
    /\ UNCHANGED <<envKey, model, routeRegistered, stderr, requestVars>>

ApiKeyUndefinedOnly(k) == k.type = "undefined"
\* if (!apiKey)
ApiKeyMissing(k) == Falsy(k)

\* if (!apiKey) { console.error(...); process.exit(1); }
CheckApiKey ==
    /\ mainPc = "checkKey"
    /\ IF ApiKeyMissing(apiKey)
       THEN /\ stderr' = Append(stderr, "OPENAI_API_KEY is not defined. Exiting...")
            /\ mainPc' = "exited"
       ELSE /\ stderr' = stderr
            /\ mainPc' = "build"
    /\ UNCHANGED <<envKey, apiKey, model, routeRegistered, requestVars>>

\* express(), new OpenAI({openAIApiKey: apiKey, ...}), parser, promptTemplate
BuildPipeline ==
    /\ mainPc = "build"
    /\ model' = [built |-> TRUE, openAIApiKey |-> apiKey]
    /\ mainPc' = "route"
    /\ UNCHANGED <<envKey, apiKey, routeRegistered, stderr, requestVars>>

\* app.post('/forecast', handler)
RegisterRoute ==
    /\ mainPc = "route"
    /\ routeRegistered' = TRUE
    /\ mainPc' = "listen"
    /\ UNCHANGED <<envKey, apiKey, model, stderr, requestVars>>

\* app.listen(port, ...)
Listen ==
    /\ mainPc = "listen"
    /\ mainPc' = "listening"
    /\ UNCHANGED <<envKey, apiKey, model, routeRegistered, stderr, requestVars>>

(***************************************************************************)
(* The Response object                                                     *)
(***************************************************************************)
\* res.status(code)
ResStatus(rs, code) == [rs EXCEPT !.statusCode = code]

\* res.json(body): sends the response if none was sent; once one was sent,
\* setting the headers throws ERR_HTTP_HEADERS_SENT.
ResJson(rs, body) ==
    LET attempt == [status |-> rs.statusCode, body |-> body]
    IN  [res |-> [rs EXCEPT !.attempts = Append(@, attempt),
                            !.sent = IF rs.sent = <<>> THEN <<attempt>> ELSE @],
         threw |-> rs.sent # <<>>]

HeadersSentError == Err(TRUE, "Cannot set headers after they are sent to the client")
SyntaxError == Err(TRUE, "Unexpected token in JSON")

MissingLocationBody == [error |-> "Please provide a location in the request body."]

LeakedErrorBody(error) == [error |-> error.message]
\* the body of the 500 response of the handler's catch block
InternalErrorBody(error) == [error |-> "Internal Server Error"]

(***************************************************************************)
(* The route handler and promptFunc                                        *)
(***************************************************************************)
\* if (!location)
LocationMissing(loc) == Falsy(loc)

\* catch (error) of the handler: log the message of an Error, then
\* res.status(500).json(...); a throw of that call leaves the handler,
\* whose promise is then rejected.
HandlerCatch(rs, lg, error) ==
    LET lg2 == IF error.isError THEN Append(lg, error.message) ELSE lg
        j == ResJson(ResStatus(rs, 500), InternalErrorBody(error))
    IN  [res |-> j.res, log |-> lg2,
         pc |-> IF j.threw THEN "rejected" ELSE "fulfilled"]

\* res.json({ result }) inside the handler's try
HandlerRespond(rs, lg, result) ==
    LET j == ResJson(rs, [result |-> result])
    IN  IF j.threw
        THEN HandlerCatch(j.res, lg, HeadersSentError)
        ELSE [res |-> j.res, log |-> lg, pc |-> "fulfilled"]

\* promptFunc after model.invoke settled: a string is JSON.parse'd, anything
\* else returned as it is; a rejection or a parse error is thrown.
PromptFuncResult(outcome) ==
    IF outcome.kind = "rejected"
    THEN [threw |-> TRUE, error |-> outcome.error, value |-> NoValue]
    ELSE IF outcome.kind = "text"
         THEN IF outcome.wellFormed
              THEN [threw |-> FALSE, error |-> NoError, value |-> outcome.value]
              ELSE [threw |-> TRUE, error |-> SyntaxError, value |-> NoValue]
         ELSE [threw |-> FALSE, error |-> NoError, value |-> outcome.value]

\* catch (error) of promptFunc: console.error('Error:', error); throw error
PromptFuncCatch(lg, error) == Append(lg, error.message)

SharedInput(r) ==
    LET arrived == {q \in Requests : pc[q] # "idle"}
    IN  location[CHOOSE q \in arrived : \A p \in arrived : p <= q]
\* promptFunc(location): the input is the handler's own const location
PromptFuncInput(r) == location[r]

\* A request arrives and its handler runs to the first await: the location
\* check (a 400 response, and no return), then promptFunc up to
\* await promptTemplate.format(...).
Receive(r, loc) ==
    /\ mainPc = "listening"
    /\ routeRegistered
    /\ pc[r] = "idle"
    /\ \A q \in Requests : q < r => pc[q] # "idle"
    /\ location' = [location EXCEPT ![r] = loc]
    /\ res' = [res EXCEPT ![r] =
                  IF LocationMissing(loc)
                  THEN ResJson(ResStatus(@, 400), MissingLocationBody).res
                  ELSE @]
    /\ pc' = [pc EXCEPT ![r] = "awaitFormat"]
    /\ UNCHANGED <<mainPc, envKey, apiKey, model, routeRegistered, stderr,
                   prompt, calls, completions, log>>

\* promptTemplate.format resolved: promptFunc calls model.invoke(promptInput)
\* and suspends on it.
FormatSettled(r) ==
    /\ pc[r] = "awaitFormat"
    /\ prompt' = [prompt EXCEPT ![r] = Format([location |-> PromptFuncInput(r)])]
    /\ calls' = [calls EXCEPT ![r] = @ + 1]
    /\ pc' = [pc EXCEPT ![r] = "awaitInvoke"]
    /\ UNCHANGED <<mainPc, envKey, apiKey, model, routeRegistered, stderr,
                   location, completions, res, log>>

\* model.invoke settled: the rest of promptFunc and of the handler.
InvokeSettled(r, outcome) ==
    /\ pc[r] = "awaitInvoke"
    /\ completions' = [completions EXCEPT ![r] = Append(@, outcome)]
    /\ LET p == PromptFuncResult(outcome)
           h == IF p.threw
                THEN HandlerCatch(res[r], PromptFuncCatch(log[r], p.error), p.error)
                ELSE HandlerRespond(res[r], log[r], p.value)
       IN  /\ res' = [res EXCEPT ![r] = h.res]
           /\ log' = [log EXCEPT ![r] = h.log]
           /\ pc' = [pc EXCEPT ![r] = h.pc]
    /\ UNCHANGED <<mainPc, envKey, apiKey, model, routeRegistered, stderr,
                   location, prompt, calls>>

InFlight == {"awaitFormat", "awaitInvoke"}

\* The rejected promise of an async handler is handled by nobody: where the
\* runtime ends the process on an unhandled rejection, the process dies and
\* the requests in flight are dropped without a response.
UnhandledRejection ==
    /\ mainPc = "listening"
    /\ \E r \in Requests : pc[r] = "rejected"
    /\ mainPc' = "crashed"
    /\ pc' = [r \in Requests |-> IF pc[r] \in InFlight THEN "aborted" ELSE pc[r]]
    /\ UNCHANGED <<envKey, apiKey, model, routeRegistered, stderr,
                   location, prompt, calls, completions, res, log>>

Next ==
    \/ LoadConfig
    \/ CheckApiKey
    \/ BuildPipeline
    \/ RegisterRoute
    \/ Listen
    \/ \E r \in Requests, loc \in BodyLocations : Receive(r, loc)
    \/ \E r \in Requests : FormatSettled(r)
    \/ \E r \in Requests, outcome \in Outcomes : InvokeSettled(r, outcome)
    \/ UnhandledRejection

Spec == Init /\ [][Next]_vars

Terminal(r) == pc[r] \in {"fulfilled", "rejected"}

Arrived(r) == pc[r] # "idle"

Sent(r) == res[r].sent

InternalServerError == [status |-> 500, body |-> [error |-> "Internal Server Error"]]

(***************************************************************************)
(* C1 - a request without a location, or with an empty one, is answered    *)
(* 400 with the "Please provide a location" body, makes no call to the     *)
(* Completion Client, and no further response is attempted for it.         *)
(***************************************************************************)
C1_MissingLocationStopsAt400 ==
    \A r \in Requests :
        (Arrived(r) /\ Falsy(location[r])) =>
            /\ Sent(r) = <<[status |-> 400, body |-> MissingLocationBody]>>
            /\ calls[r] = 0
            /\ Len(res[r].attempts) = 1

(***************************************************************************)
(* C2 - for a non-empty location, a 200 response carries {result: R} with  *)
(* all of day1..day5 present in R and each a string, whatever the          *)
(* Completion Client returned.                                             *)
(***************************************************************************)
C2_Status200IsSchemaValid ==
    \A r \in Requests :
        (~Falsy(location[r]) /\ Sent(r) # <<>> /\ Sent(r)[1].status = 200) =>
            /\ DOMAIN Sent(r)[1].body = {"result"}
            /\ parser(Sent(r)[1].body.result)

\* The first output of the model conforms: it is JSON text matching the schema.
FirstOutputConforms(r) ==
    /\ completions[r][1].kind = "text"
    /\ completions[r][1].wellFormed
    /\ parser(completions[r][1].value)

(***************************************************************************)
(* C3 - when the first output of the model fails validation (not JSON, or  *)
(* not matching day1..day5), exactly one repair call follows: a request    *)
(* with a non-empty location makes one call when the first output conforms *)
(* and two when it does not.                                               *)
(***************************************************************************)
C3_OneRepairCall ==
    \A r \in Requests :
        (Terminal(r) /\ ~Falsy(location[r]) /\ completions[r][1].kind = "text") =>
            IF FirstOutputConforms(r) THEN calls[r] = 1 ELSE calls[r] = 2

(***************************************************************************)
(* C4 - for a non-empty location, when model.invoke rejects, the response  *)
(* is 500 with exactly {"error": "Internal Server Error"}: the error is    *)
(* logged, its message is not in the response, and no further call to the  *)
(* Completion Client is made for the request.                              *)
(***************************************************************************)
C4_ProviderFailureIs500 ==
    \A r \in Requests :
        (~Falsy(location[r]) /\ completions[r] # <<>>
                             /\ completions[r][1].kind = "rejected") =>
            /\ pc[r] = "fulfilled"
            /\ Sent(r) = <<InternalServerError>>
            /\ res[r].attempts = Sent(r)
            /\ Sent(r)[1].body.error # completions[r][1].error.message
            /\ \E i \in 1..Len(log[r]) : log[r][i] = completions[r][1].error.message
            /\ calls[r] = 1
            /\ Len(completions[r]) = 1

C4_Witness ==
    \E r \in Requests :
        /\ ~Falsy(location[r])
        /\ completions[r] = <<Rejected(Err(TRUE, "401 Incorrect API key provided"))>>
        /\ Sent(r) = <<InternalServerError>>

(***************************************************************************)
(* C5 - every error raised on any path through the handler is caught at    *)
(* the endpoint and mapped to a response; none leaves the async handler as *)
(* a rejection that could end the process, also not one raised inside the  *)
(* catch block after a response was sent.                                  *)
(***************************************************************************)
C5_NoErrorEscapesHandler ==
    /\ \A r \in Requests : pc[r] # "rejected"
    /\ mainPc # "crashed"

(***************************************************************************)
(* C6 - the prompt sent to the Completion Client contains the location in  *)
(* the template's {location} slot and the format instructions of the       *)
(* output schema.                                                          *)
(***************************************************************************)
C6_PromptHasLocationAndInstructions ==
    \A r \in Requests :
        (calls[r] > 0 /\ ~Falsy(location[r])) =>
            /\ Contains(prompt[r], location[r].val)
            /\ Contains(prompt[r], formatInstructions)

\* The process got past the credential check into serving.
Serving ==
    \/ model.built
    \/ routeRegistered
    \/ mainPc \in {"listening", "crashed"}
    \/ \E r \in Requests : Arrived(r)

(***************************************************************************)
(* C7 - with OPENAI_API_KEY absent or empty the process logs an error and  *)
(* exits before the model is built, the route registered or the server     *)
(* listening; wherever the server listens or handles a request, the        *)
(* credential is defined and the one read at startup.                      *)
(***************************************************************************)
C7_NoCredentialNoServer ==
    /\ Serving =>
          /\ ~Falsy(envKey)
          /\ apiKey = envKey
          /\ model.built => model.openAIApiKey = envKey
    /\ (Falsy(envKey) /\ mainPc \notin {"start", "checkKey"}) =>
          /\ mainPc = "exited"
          /\ Len(stderr) = 1
          /\ ~Serving

C7_Witness ==
    /\ Falsy(envKey)
    /\ mainPc = "exited"
    /\ stderr = <<"OPENAI_API_KEY is not defined. Exiting...">>

(***************************************************************************)
(* C8 - a request moves Received, Validating-Input, Awaiting-Completion,   *)
(* Awaiting-Validation, Responding: the prompt and completion stage is     *)
(* entered only with a location that passed validation, a 200 is sent only *)
(* after a completion returned and was validated, and no request is left   *)
(* without one of the responses 200, 400, 500.                             *)
(***************************************************************************)
C8_LinearStateMachine ==
    \A r \in Requests :
        /\ pc[r] \in InFlight => ~Falsy(location[r])
        /\ (Sent(r) # <<>> /\ Sent(r)[1].status = 200) =>
              /\ completions[r] # <<>>
              /\ FirstOutputConforms(r)
        /\ pc[r] = "aborted" => Sent(r) # <<>>

\* The next step of the handler of request r.
Resume(r) == FormatSettled(r) \/ \E outcome \in Outcomes : InvokeSettled(r, outcome)

C10_AtMostOneResponseAttempt ==
    \A r \in Requests : Len(res[r].attempts) <= 1

====
